---- MODULE Spec2Model ----
(***************************************************************************)
(* Model of the machine-code disassembly printer: the inlining-context     *)
(* printer DILineInfoPrinter, the SymbolTable of branch targets and the    *)
(* two-pass loop of jl_dump_asm_internal.                                  *)
(***************************************************************************)
EXTENDS Integers, Sequences, FiniteSets, TLC

VARIABLES
    context,        \* DILineInfoPrinter::context, outermost frame first
    inline_depth,   \* DILineInfoPrinter::inline_depth
    bracket_outer,  \* DILineInfoPrinter::bracket_outer (constructor argument)
    verbosity,      \* DILineInfoPrinter::verbosity
    text,           \* the lines the last printer call wrote to Out
    op,             \* the call being returned from: its name, its argument
                    \* and the printer state it started in ("idle": none)
    script,         \* scripted runs: the frame stacks still to pass
    log,            \* scripted runs: per call made, what it wrote and left
    env,            \* what the call is given: the code region (Fptr, Fsize),
                    \* slide, the object file's symbols, the runtime's names
    Table,          \* SymbolTable::Table
    ip,             \* SymbolTable::ip
    ncreate,        \* how often createSymbols has run: 0, 1, 2 (= more than once)
    input,          \* jl_dump_asm_internal: the target, di_ctx and its tables,
                    \* debuginfo, binary, and the instructions the bytes can hold
    pc,             \* jl_dump_asm_internal: where the call stands
    pass,           \* the pass of the loop, and SymbolTable::Pass
    Index,          \* offset of the instruction being disassembled
    insSize,        \* size the last getInstruction reported, patched on Fail
    nextLineAddr,   \* address of the next line table entry
    di_lineinfo,    \* the line table, filtered
    di_lineIter,    \* zero-based position of the line table cursor
    decoded,        \* what getInstruction answers, per offset decoded so far
    stream,         \* what has been written to the streamer, in order
    iters,          \* iterations of the disassembly loop made in this pass
    calls,          \* the calls of lookupSymbolName and emit_lineinfo made by
                    \* jl_dump_asm_internal so far, with their results
    ub              \* reads outside an object made so far

annVars == <<context, inline_depth, bracket_outer, verbosity, text>>
scenVars == <<script, log>>
symVars == <<env, Table, ip, ncreate>>
disVars == <<input, pc, pass, Index, insSize, nextLineAddr, di_lineinfo,
             di_lineIter, decoded, stream, iters, calls, ub>>
vars == <<context, inline_depth, bracket_outer, verbosity, text, op, script, log,
          env, Table, ip, ncreate,
          input, pc, pass, Index, insSize, nextLineAddr, di_lineinfo,
          di_lineIter, decoded, stream, iters, calls, ub>>

----------------------------------------------------------------------------
(* Bounds of the model *)

\* longest frame stack (DI.size()) passed to emit_lineinfo
MaxFrames == 3
\* scripted runs: longest frame stack passed before the stack under test
MaxOpen == 2
\* addresses are AddrBits wide (uint64_t and uintptr_t, scaled down)
AddrBits == 5
\* largest code region (Fsize), in minimum steps of the architecture
MaxUnits == 2
\* longest line table before it is filtered
MaxLines == 2

----------------------------------------------------------------------------
(* Values *)

Max(a, b) == IF a >= b THEN a ELSE b

\* A DILineInfo: FunctionName is kept as a sequence of characters so that
\* rtrim(';') has something to strip.
Fr(fn, line) == [FunctionName |-> fn, FileName |-> "a.jl", Line |-> line]

\* Three functions, one of them also under its name with the trailing ';'.
Frames ==
    { Fr(<<"f">>, 1), Fr(<<"f", ";">>, 1), Fr(<<"g">>, 1), Fr(<<"h">>, 1) }

\* The frames of the scripted runs: f at three lines as well.
ScenFrames ==
    Frames \cup { Fr(<<"f">>, 2), Fr(<<"f">>, 3) }

\* all frame stacks of length lo..hi over the frames F
StacksOf(F, lo, hi) == UNION { [1..n -> F] : n \in lo..hi }

Stacks == StacksOf(Frames, 0, MaxFrames)

\* StringRef::rtrim(';'): drop every trailing ';'
RECURSIVE rtrim(_)
rtrim(s) ==
    IF Len(s) > 0 /\ s[Len(s)] = ";" THEN rtrim(SubSeq(s, 1, Len(s) - 1)) ELSE s

\* StringRef(frame.FunctionName).rtrim(';')
Method(frame) == rtrim(frame.FunctionName)

\* std::vector::at(i), zero-based
At(v, i) == v[i + 1]

RECURSIVE Reverse(_)
Reverse(s) == IF s = <<>> THEN <<>> ELSE Append(Reverse(Tail(s)), Head(s))

\* A line of output: LineStart, `indent` repeats of the indent glyph, then
\* either `glyphs` closing glyphs, or the opening glyph (glyphs = 1) or none
\* (glyphs = 0) followed by the frames named on the line.
CloseLine(indent, n) ==
    [kind |-> "close", indent |-> indent, glyphs |-> n, frames |-> <<>>]
OpenLine(indent, glyph, frames) ==
    [kind |-> "open", indent |-> indent, glyphs |-> IF glyph THEN 1 ELSE 0,
     frames |-> frames]

----------------------------------------------------------------------------
(* DILineInfoPrinter *)

collapse_recursive == TRUE

\* inlining_indent without bracket_outer / without the final decrement
inlining_indentNoOuter(depth, bo) == Max(depth, 1) - 1
inlining_indentNoDecrement(depth, bo) == Max(depth + (IF bo THEN 1 ELSE 0), 1)

\* inlining_indent without the lower limit of std::max
inlining_indentUnclamped(depth, bo) == depth + (IF bo THEN 1 ELSE 0) - 1

\* the repeat count of inlining_indent
inlining_indent(depth, bo) == Max(depth + (IF bo THEN 1 ELSE 0), 1) - 1

\* the matching prefix with DI read from its innermost frame
RECURSIVE MatchingPrefixInnerFirst(_, _, _)
MatchingPrefixInnerFirst(ctx, DI, nctx) ==
    IF nctx < Len(ctx) /\ nctx < Len(DI) /\ At(ctx, nctx) = At(DI, nctx)
    THEN MatchingPrefixInnerFirst(ctx, DI, nctx + 1)
    ELSE nctx

\* the matching prefix with frames compared by their method only
RECURSIVE MatchingPrefixByMethod(_, _, _)
MatchingPrefixByMethod(ctx, DI, nctx) ==
    IF nctx < Len(ctx) /\ nctx < Len(DI)
       /\ Method(At(ctx, nctx)) = Method(At(DI, Len(DI) - 1 - nctx))
    THEN MatchingPrefixByMethod(ctx, DI, nctx + 1)
    ELSE nctx

\* the size of the matching prefix, counted from nctx
RECURSIVE MatchingPrefix(_, _, _)
MatchingPrefix(ctx, DI, nctx) ==
    IF nctx < Len(ctx) /\ nctx < Len(DI)
       /\ At(ctx, nctx) = At(DI, Len(DI) - 1 - nctx)
    THEN MatchingPrefix(ctx, DI, nctx + 1)
    ELSE nctx

\* nctx left where the matching prefix ended
ExcludeNothing(ctx, nctx, method) == nctx

\* "transform nctx to exclude the combined frames"
RECURSIVE ExcludeCombined(_, _, _)
ExcludeCombined(ctx, nctx, method) ==
    IF nctx > 0 /\ Method(At(ctx, nctx - 1)) = method
    THEN ExcludeCombined(ctx, nctx - 1, method)
    ELSE nctx

\* the recursion test passed by every last matching frame
RecursiveContinuationAlways(ctx, DI, nctx) == nctx > 0

\* the recursion test on the last matching frame
RecursiveContinuation(ctx, DI, nctx) ==
    /\ nctx > 0
    /\ LET method == Method(At(ctx, nctx - 1))
           nframes == Len(DI)
       IN \/ (nctx < nframes /\ Method(At(DI, nframes - nctx - 1)) = method)
          \/ (nctx < Len(ctx) /\ Method(At(ctx, nctx)) = method)

\* the line-only test on the function names as they are, ';' included
SameFrameUpdateExact(ctx, DI, nctx) ==
    /\ nctx < Len(ctx)
    /\ nctx < Len(DI)
    /\ At(ctx, nctx).FunctionName = At(DI, Len(DI) - 1 - nctx).FunctionName

\* "look at the first non-matching element to see if we are only changing
\* the line number"
SameFrameUpdate(ctx, DI, nctx) ==
    /\ nctx < Len(ctx)
    /\ nctx < Len(DI)
    /\ LET CtxLine == At(ctx, nctx)
           FrameLine == At(DI, Len(DI) - 1 - nctx)
       IN IF collapse_recursive
          THEN Method(CtxLine) = Method(FrameLine)
          ELSE CtxLine.FileName = FrameLine.FileName
               /\ Method(CtxLine) = Method(FrameLine)

\* npops before the update_line_only adjustment: the loop over context from
\* nctx + 1, started at i with Prev and npops
RECURSIVE CountPopsFrom(_, _, _, _)
CountPopsFrom(ctx, i, Prev, npops) ==
    IF i < Len(ctx)
    THEN LET Next_ == Method(At(ctx, i))
         IN CountPopsFrom(ctx, i + 1, Next_,
                          IF Prev # Next_ THEN npops + 1 ELSE npops)
    ELSE npops

\* npops as the number of frames above nctx
CountPopsFrames(ctx, nctx) == Len(ctx) - nctx

CountPops(ctx, nctx) ==
    IF collapse_recursive
    THEN CountPopsFrom(ctx, nctx + 1, Method(At(ctx, nctx)), 1)
    ELSE Len(ctx) - nctx

\* the printing loop without its inner loop
NoContinuations(DI, nctx, method) == <<>>

\* the inner loop of the printing loop: the frames after nctx that continue
\* the line of `method`
RECURSIVE Continuations(_, _, _)
Continuations(DI, nctx, method) ==
    IF nctx < Len(DI) /\ Method(At(DI, Len(DI) - 1 - nctx)) = method
    THEN <<At(DI, Len(DI) - 1 - nctx)>> \o Continuations(DI, nctx + 1, method)
    ELSE <<>>

\* the opening glyph written for every frame
OpeningGlyphAlways(bo, nctx) == TRUE

\* whether the printing loop writes the opening glyph for the frame that
\* brought nctx to its value
OpeningGlyph(bo, nctx) == bo \/ nctx # 1

\* what the printing loop does to inline_depth for one line
DepthAfterOpen(depth, update_line_only) ==
    IF update_line_only THEN depth ELSE depth + 1

\* "print the new frames"
RECURSIVE PrintFrames(_, _, _, _, _, _, _)
PrintFrames(DI, nctx, ctx, depth, update_line_only, out, bo) ==
    IF nctx < Len(DI)
    THEN LET frame == At(DI, Len(DI) - 1 - nctx)
             indent == inlining_indent(depth, bo)
             nctx1 == nctx + 1
             depth1 == DepthAfterOpen(depth, update_line_only)
             glyph == ~update_line_only /\ OpeningGlyph(bo, nctx1)
             more == IF collapse_recursive
                     THEN Continuations(DI, nctx1, Method(frame))
                     ELSE <<>>
             line == OpenLine(indent, glyph, <<frame>> \o more)
         IN PrintFrames(DI, nctx1 + Len(more), (ctx \o <<frame>>) \o more,
                        depth1, FALSE, Append(out, line), bo)
    ELSE [context |-> ctx, inline_depth |-> depth, out |-> out]

\* npops without the update_line_only adjustment
PopsLineOnlyIgnored(npops, update_line_only) == npops

\* npops after the update_line_only adjustment
Pops(npops, update_line_only) ==
    IF update_line_only THEN npops - 1 ELSE npops

\* the new frames printed first, the closing line behind them
PrintAndClose(ctx, depth, bo, DI, nctx, update_line_only) ==
    IF nctx < Len(ctx)
    THEN LET npops == Pops(CountPops(ctx, nctx), update_line_only)
             ctx1 == SubSeq(ctx, 1, nctx)
             depth1 == IF npops > 0 THEN depth - npops ELSE depth
             r == PrintFrames(DI, nctx, ctx1, depth1, update_line_only, <<>>, bo)
         IN [r EXCEPT !.out = IF npops > 0
                              THEN Append(r.out, CloseLine(inlining_indent(depth1, bo), npops))
                              ELSE r.out]
    ELSE PrintFrames(DI, nctx, ctx, depth, update_line_only, <<>>, bo)

\* "examine how many frames we're returning from", then print the new frames
CloseAndPrint(ctx, depth, bo, DI, nctx, update_line_only) ==
    IF nctx < Len(ctx)
    THEN LET npops == Pops(CountPops(ctx, nctx), update_line_only)
             ctx1 == SubSeq(ctx, 1, nctx)
             depth1 == IF npops > 0 THEN depth - npops ELSE depth
             out == IF npops > 0
                    THEN <<CloseLine(inlining_indent(depth1, bo), npops)>>
                    ELSE <<>>
         IN PrintFrames(DI, nctx, ctx1, depth1, update_line_only, out, bo)
    ELSE PrintFrames(DI, nctx, ctx, depth, update_line_only, <<>>, bo)

\* emit_lineinfo without the return on an empty DI
SkipNoneOnly(verb, DI) == verb = "none"

\* the early returns of emit_lineinfo
Skip(verb, DI) == verb = "none" \/ Len(DI) = 0

emit_lineinfo(ctx, depth, bo, verb, DI) ==
    IF Skip(verb, DI)
    THEN [context |-> ctx, inline_depth |-> depth, out |-> <<>>]
    ELSE LET n0 == MatchingPrefix(ctx, DI, 0)
             rec == collapse_recursive /\ RecursiveContinuation(ctx, DI, n0)
             nctx == IF rec
                     THEN ExcludeCombined(ctx, n0, Method(At(ctx, n0 - 1)))
                     ELSE n0
             update_line_only == rec \/ SameFrameUpdate(ctx, DI, nctx)
         IN CloseAndPrint(ctx, depth, bo, DI, nctx, update_line_only)

\* emit_finish that only resets the state
emit_finishSilent(ctx, depth, bo) ==
    [context |-> <<>>, inline_depth |-> 0, out |-> <<>>]

emit_finish(ctx, depth, bo) ==
    LET pops == inlining_indent(depth, bo)
    IN [context |-> <<>>, inline_depth |-> 0,
        out |-> IF pops > 0 THEN <<CloseLine(0, pops)>> ELSE <<>>]

\* DILineInfoPrinter(LineStart, bracket_outer) followed by SetVerbosity
PrinterInit ==
    /\ context = <<>>
    /\ inline_depth = 0
    /\ bracket_outer \in BOOLEAN
    /\ verbosity \in {"source", "none"}
    /\ text = <<>>

----------------------------------------------------------------------------
(* SymbolTable *)

\* "instructions are always 4 bytes" / "attempt to slide 1 byte forward"
FixedStep == 4
ByteStep == 1

MaxSize == MaxUnits * FixedStep
AddrMod == 2 ^ AddrBits
Addr == 0..(AddrMod - 1)

\* unsigned arithmetic of the address width
Add(a, b) == (a + b) % AddrMod
Sub(a, b) == (a - b) % AddrMod

\* std::string names: the empty string, "L" followed by a number, and the
\* names the object file and the runtime give
EmptyName == <<>>
OffsetLabel(rel) == <<"L", rel>>

\* a const char*: NULL or a string
CStr(name) == [null |-> FALSE, str |-> name]
NULL == [null |-> TRUE, str |-> EmptyName]

\* no SymbolTable, after SymbolTable::SymbolTable: an empty map and ip(0)
EmptyTable == [a \in {} |-> EmptyName]

\* Fptr <= addr && addr < Fptr + Fsize with the bound taken without the ip
InRegionClosed(addr) == env.Fptr <= addr /\ addr <= Add(env.Fptr, env.Fsize)

\* Fptr <= addr && addr < Fptr + Fsize
InRegion(addr) == env.Fptr <= addr /\ addr < Add(env.Fptr, env.Fsize)

\* jl_getFunctionInfo's func_name for addr: NULL, "" or a name
lookupLocalPC(addr) == IF addr \in DOMAIN env.runtime THEN env.runtime[addr] ELSE NULL

\* the name of the object file's symbol at offset, "" without one or
\* without an object file
getSymbolNameAt(offset) ==
    IF env.object /\ offset \in DOMAIN env.symbols
    THEN env.symbols[offset]
    ELSE EmptyName

\* insertAddress that gives the address the runtime's name at once
insertAddressNamed(T, addr) ==
    [a \in DOMAIN T \cup {addr} |->
        IF a = addr THEN lookupLocalPC(addr).str ELSE T[a]]

\* insertAddress that records nothing
insertAddressDropped(T, addr) == T

\* Table[addr] = ""
insertAddress(T, addr) ==
    [a \in DOMAIN T \cup {addr} |-> IF a = addr THEN EmptyName ELSE T[a]]

\* "L" << rel with the ip(0) of the constructor
RelativeLabelFromZero(addr, ip_) == OffsetLabel(Sub(addr, 0))

\* "L" << rel, rel = isymb->first - ip
RelativeLabel(addr, ip_) == OffsetLabel(Sub(addr, ip_))

\* createSymbols on the table T with the instruction pointer ip_
createSymbols(T, ip_) ==
    [a \in DOMAIN T |->
        IF InRegion(a)
        THEN RelativeLabel(a, ip_)
        ELSE LET global == lookupLocalPC(a)
             IN IF ~global.null /\ global.str # EmptyName
                THEN global.str
                ELSE T[a]]

\* the name lookupSymbolName stores for an address it sees the first time
FirstLookup(addr) ==
    LET local_name == getSymbolNameAt(Add(addr, env.slide))
        global == lookupLocalPC(addr)
    IN IF local_name = EmptyName
       THEN (IF ~global.null THEN global.str ELSE EmptyName)
       ELSE local_name

\* lookupSymbolName that looks the address up at every call
lookupSymbolNameAgain(T, addr) ==
    LET T1 == [a \in DOMAIN T \cup {addr} |->
                 IF a = addr THEN FirstLookup(addr) ELSE T[a]]
    IN [Table |-> T1,
        name |-> IF T1[addr] = EmptyName THEN NULL ELSE CStr(T1[addr]),
        insertion |-> TRUE]

\* lookupSymbolName: the table afterwards, the const char* returned, and
\* whether the address was inserted and so looked up
lookupSymbolName(T, addr) ==
    LET T1 == IF addr \in DOMAIN T
              THEN T
              ELSE [a \in DOMAIN T \cup {addr} |->
                       IF a = addr THEN FirstLookup(addr) ELSE T[a]]
    IN [Table |-> T1,
        name |-> IF T1[addr] = EmptyName THEN NULL ELSE CStr(T1[addr]),
        insertion |-> addr \notin DOMAIN T]

\* lookupSymbol without the test for the empty name
lookupSymbolAnyName(T, addr) ==
    IF addr \notin DOMAIN T THEN NULL ELSE CStr(T[addr])

\* lookupSymbol: the MCSymbol of the name of addr, NULL without a name
lookupSymbol(T, addr) ==
    IF addr \notin DOMAIN T \/ T[addr] = EmptyName THEN NULL ELSE CStr(T[addr])

\* (uint64_t)-1
NoAddr == Sub(0, 1)

\* the variables of jl_dump_asm_internal, where it is not running
NoInput == [DisAsm |-> FALSE]
NoDis ==
    /\ input = NoInput /\ pc = "none" /\ pass = 0 /\ Index = 0 /\ insSize = 0
    /\ nextLineAddr = NoAddr /\ di_lineinfo = <<>> /\ di_lineIter = 0
    /\ decoded = <<>> /\ stream = <<>> /\ iters = 0 /\ calls = <<>> /\ ub = {}

\* The code regions, slides, object symbols and runtime names of the model.
\* The region lies at Fptr = 8; the runtime may know the function that owns
\* the region ("julia_f" for every address in it) and a function before it.
Regions == { [Fptr |-> 8, Fsize |-> n] : n \in 1..MaxSize }

RuntimeNames(r, own, other, blank) ==
    [a \in (IF own THEN r.Fptr..(r.Fptr + r.Fsize - 1) ELSE {})
           \cup (IF other THEN {r.Fptr - 4} ELSE {})
           \cup (IF blank THEN {r.Fptr - 8} ELSE {}) |->
        IF a = r.Fptr - 4 THEN CStr(<<"julia_g">>)
        ELSE IF a = r.Fptr - 8 THEN CStr(EmptyName)
        ELSE CStr(<<"julia_f">>)]

Env(r, slide, object, own, other, blank) ==
    [Fptr |-> r.Fptr, Fsize |-> r.Fsize, slide |-> slide, object |-> object,
     symbols |-> [a \in {Add(r.Fptr, slide)} |-> <<"f_entry">>],
     runtime |-> RuntimeNames(r, own, other, blank)]

NoEnv == Env([Fptr |-> 0, Fsize |-> 0], 0, FALSE, FALSE, FALSE, FALSE)

----------------------------------------------------------------------------
(* The SymbolTable called freely *)

\* the addresses passed to the SymbolTable: the first and the last of the
\* region, the first past it, and two before it
SymAddrs ==
    { env.Fptr, Add(env.Fptr, env.Fsize - 1), Add(env.Fptr, env.Fsize),
      Sub(env.Fptr, 4), Sub(env.Fptr, 8) }

\* the instruction pointers set: the region's base and its last byte
SymIPs == { env.Fptr, Add(env.Fptr, env.Fsize - 1) }

InitSym ==
    /\ context = <<>> /\ inline_depth = 0 /\ bracket_outer = TRUE
    /\ verbosity = "source" /\ text = <<>>
    /\ script = <<>> /\ log = <<>>
    /\ op = [name |-> "idle"]
    /\ env \in { Env(r, sl, ob, own, TRUE, TRUE) :
                   r \in { x \in Regions : x.Fsize \in {2, MaxSize} },
                   sl \in {0}, ob \in BOOLEAN, own \in BOOLEAN }
    /\ Table = EmptyTable
    /\ ip = 0
    /\ ncreate = 0
    /\ NoDis

SymCall(name, arg, result) ==
    /\ op.name = "idle"
    /\ op' = [name |-> name, arg |-> arg, result |-> result,
              pre |-> [Table |-> Table, ip |-> ip, ncreate |-> ncreate]]
    /\ UNCHANGED <<annVars, scenVars, env, disVars>>

DoInsertAddress(addr) ==
    /\ SymCall("insertAddress", addr, NULL)
    /\ Table' = insertAddress(Table, addr)
    /\ UNCHANGED <<ip, ncreate>>

DoCreateSymbols ==
    /\ SymCall("createSymbols", 0, NULL)
    /\ Table' = createSymbols(Table, ip)
    /\ ncreate' = IF ncreate = 0 THEN 1 ELSE 2
    /\ UNCHANGED ip

DoLookupSymbolName(addr) ==
    /\ \E r \in {lookupSymbolName(Table, addr)} :
          /\ SymCall("lookupSymbolName", addr, r.name)
          /\ Table' = r.Table
    /\ UNCHANGED <<ip, ncreate>>

DoLookupSymbol(addr) ==
    /\ SymCall("lookupSymbol", addr, lookupSymbol(Table, addr))
    /\ UNCHANGED <<Table, ip, ncreate>>

DoSetIP(addr) ==
    /\ SymCall("setIP", addr, NULL)
    /\ ip' = addr
    /\ UNCHANGED <<Table, ncreate>>

SymReturn ==
    /\ op.name # "idle"
    /\ op' = [name |-> "idle"]
    /\ UNCHANGED <<annVars, scenVars, symVars, disVars>>

NextSym ==
    \/ \E a \in SymAddrs : DoInsertAddress(a)
    \/ DoCreateSymbols
    \/ \E a \in SymAddrs : DoLookupSymbolName(a)
    \/ \E a \in SymAddrs : DoLookupSymbol(a)
    \/ \E a \in SymIPs : DoSetIP(a)
    \/ SymReturn

SpecSym == InitSym /\ [][NextSym]_vars

----------------------------------------------------------------------------
(* The printer called freely: any sequence of emit_lineinfo and emit_finish. *)
(* A call writes into the caller's fresh buffer (std::string buf); the      *)
(* caller then hands the buffer to the streamer and drops it.               *)

State(ctx, depth) == [context |-> ctx, inline_depth |-> depth]
Idle == [name |-> "idle", arg |-> <<>>, pre |-> State(<<>>, 0)]

\* the variables of the SymbolTable, where there is none
NoSym == env = NoEnv /\ Table = EmptyTable /\ ip = 0 /\ ncreate = 0 /\ NoDis

InitAnnot ==
    /\ PrinterInit
    /\ op = Idle
    /\ script = <<>>
    /\ log = <<>>
    /\ NoSym

Annotate(DI) ==
    /\ op.name = "idle"
    /\ \E r \in {emit_lineinfo(context, inline_depth, bracket_outer, verbosity, DI)} :
          /\ context' = r.context
          /\ inline_depth' = r.inline_depth
          /\ text' = r.out
    /\ op' = [name |-> "emit_lineinfo", arg |-> DI,
              pre |-> State(context, inline_depth)]
    /\ UNCHANGED <<bracket_outer, verbosity, scenVars, symVars, disVars>>

Finish ==
    /\ op.name = "idle"
    /\ \E r \in {emit_finish(context, inline_depth, bracket_outer)} :
          /\ context' = r.context
          /\ inline_depth' = r.inline_depth
          /\ text' = r.out
    /\ op' = [name |-> "emit_finish", arg |-> <<>>,
              pre |-> State(context, inline_depth)]
    /\ UNCHANGED <<bracket_outer, verbosity, scenVars, symVars, disVars>>

\* the caller takes the buffer
Return ==
    /\ op.name # "idle"
    /\ op' = Idle
    /\ text' = <<>>
    /\ UNCHANGED <<context, inline_depth, bracket_outer, verbosity, scenVars, symVars, disVars>>

NextAnnot ==
    \/ \E DI \in Stacks : Annotate(DI)
    \/ Finish
    \/ Return

SpecAnnot == InitAnnot /\ [][NextAnnot]_vars

----------------------------------------------------------------------------
(* Scripted runs of the printer: a fixed sequence of emit_lineinfo calls on *)
(* a fresh printer, every call logged.                                      *)

\* [A,B], then [A], then [A,C] (written outermost first), for any frames
PushPopScripts ==
    { << <<B, A>>, <<A>>, <<C, A>> >> : A \in ScenFrames, B \in ScenFrames,
                                         C \in ScenFrames }

SameMethod(S) == \A i \in 1..Len(S) : Method(S[i]) = Method(S[1])

\* any stack first, then a stack whose frames all share one function name
RecursionScripts ==
    { <<S0, S>> : S0 \in StacksOf(Frames, 0, MaxOpen),
                  S \in { T \in StacksOf(ScenFrames, 1, MaxFrames) : SameMethod(T) } }

\* any stack first, then one stack twice; or one stack twice on the fresh
\* printer
RepeatScripts ==
    { <<S0, S, S>> : S0 \in StacksOf(Frames, 1, MaxOpen),
                     S \in StacksOf(Frames, 1, MaxFrames) }
    \cup { <<S, S>> : S \in StacksOf(Frames, 1, MaxFrames) }

InitScript ==
    /\ PrinterInit
    /\ verbosity = "source"
    /\ op = Idle
    /\ script \in PushPopScripts \cup RecursionScripts \cup RepeatScripts
    /\ log = <<>>
    /\ NoSym

ScriptStep ==
    /\ script # <<>>
    /\ \E r \in {emit_lineinfo(context, inline_depth, bracket_outer, verbosity,
                               Head(script))} :
          /\ context' = r.context
          /\ inline_depth' = r.inline_depth
          /\ text' = r.out
          /\ log' = Append(log, [arg |-> Head(script), text |-> r.out,
                                 context |-> r.context,
                                 inline_depth |-> r.inline_depth])
    /\ script' = Tail(script)
    /\ UNCHANGED <<bracket_outer, verbosity, op, symVars, disVars>>

\* emit_finish behind the last call of the script
ScriptFinish ==
    /\ script = <<>>
    /\ log # <<>>
    /\ op.name = "idle"
    /\ \E r \in {emit_finish(context, inline_depth, bracket_outer)} :
          /\ context' = r.context
          /\ inline_depth' = r.inline_depth
          /\ text' = r.out
    /\ op' = [name |-> "emit_finish", arg |-> <<>>,
              pre |-> State(context, inline_depth)]
    /\ UNCHANGED <<bracket_outer, verbosity, scenVars, symVars, disVars>>

NextScript == ScriptStep \/ ScriptFinish

SpecScript == InitScript /\ [][NextScript]_vars

----------------------------------------------------------------------------
(* jl_dump_asm_internal: its callbacks and inputs *)

\* LLVMDisassembler_ReferenceType_*
In_Branch == "In_Branch"
In_PCrel_Load == "In_PCrel_Load"
InOut_None == "InOut_None"
Out_LitPool_SymAddr == "Out_LitPool_SymAddr"

\* a call of lookupSymbolName(addr) and its result r
Looked(addr, r) == [addr |-> addr, name |-> r.name, insertion |-> r.insertion]

\* SymbolLookup with the instruction pointer left out of the address
SymbolLookupNoIP(T, pass_, ip_, RTypeIn, ReferenceValue) ==
    LET r == lookupSymbolName(T, ReferenceValue)
    IN [Table |-> IF pass_ # 0 THEN r.Table ELSE T,
        ret |-> IF pass_ # 0 /\ RTypeIn \in {In_Branch, InOut_None}
                THEN r.name ELSE NULL,
        ReferenceType |-> InOut_None, ReferenceName |-> NULL,
        looked |-> IF pass_ # 0 THEN <<Looked(ReferenceValue, r)>> ELSE <<>>]

\* SymbolLookup: the table afterwards, the name returned and the two
\* out-parameters
SymbolLookup(T, pass_, ip_, RTypeIn, ReferenceValue) ==
    LET none == [Table |-> T, ret |-> NULL,
                 ReferenceType |-> InOut_None, ReferenceName |-> NULL,
                 looked |-> <<>>]
        reladdr == Add(ReferenceValue, ip_)
        rel == lookupSymbolName(T, reladdr)
        abs == lookupSymbolName(T, ReferenceValue)
    IN IF pass_ = 0 THEN none
       ELSE IF RTypeIn = In_Branch
       THEN [none EXCEPT !.Table = rel.Table, !.ret = rel.name,
                         !.looked = <<Looked(reladdr, rel)>>]
       ELSE IF RTypeIn = In_PCrel_Load
       THEN IF ~rel.name.null
            THEN [none EXCEPT !.Table = rel.Table,
                              !.ReferenceType = Out_LitPool_SymAddr,
                              !.ReferenceName = rel.name,
                              !.looked = <<Looked(reladdr, rel)>>]
            ELSE [none EXCEPT !.Table = rel.Table,
                              !.looked = <<Looked(reladdr, rel)>>]
       ELSE IF RTypeIn = InOut_None
       THEN [none EXCEPT !.Table = abs.Table, !.ret = abs.name,
                         !.looked = <<Looked(ReferenceValue, abs)>>]
       ELSE none

\* The symbolizer installed for pass 1 calls SymbolLookup once for every
\* reference of the instruction, in order.
RECURSIVE Symbolize(_, _, _, _)
Symbolize(T, pass_, ip_, refs) ==
    IF refs = <<>>
    THEN [Table |-> T, out |-> <<>>, looked |-> <<>>]
    ELSE LET r == SymbolLookup(T, pass_, ip_, Head(refs).type, Head(refs).value)
             rest == Symbolize(r.Table, pass_, ip_, Tail(refs))
         IN [Table |-> rest.Table,
             out |-> <<[ret |-> r.ret, ReferenceType |-> r.ReferenceType,
                        ReferenceName |-> r.ReferenceName]>> \o rest.out,
             looked |-> r.looked \o rest.looked]

\* "attempt to symbolicate any immediate operands": the names added as
\* comments.  An operand the symbolizer turned into an expression (its
\* reference got a name) is no immediate any more.
RECURSIVE OperandComments(_, _, _, _)
OperandComments(T, base, ops, syms) ==
    IF ops = <<>>
    THEN [Table |-> T, out |-> <<>>, looked |-> <<>>]
    ELSE LET o == Head(ops)
             isImm == o.ref = 0 \/ syms[o.ref].ret.null
             imm == IF o.pcrel THEN Add(o.imm, base) ELSE o.imm
             r == IF isImm THEN lookupSymbolName(T, imm)
                  ELSE [Table |-> T, name |-> NULL, insertion |-> FALSE]
             rest == OperandComments(r.Table, base, Tail(ops), syms)
         IN [Table |-> rest.Table,
             out |-> (IF r.name.null THEN <<>> ELSE <<r.name.str>>) \o rest.out,
             looked |-> (IF isImm THEN <<Looked(imm, r)>> ELSE <<>>)
                        \o rest.looked]

\* the loop that moves an entry only when its address is a new one
RECURSIVE FilterLoopKeepFirst(_, _, _, _)
FilterLoopKeepFirst(li, i, j, cur_addr) ==
    IF i >= Len(li)
    THEN SubSeq(li, 1, j + 1)
    ELSE LET info == At(li, i)
             j2 == IF info.first # cur_addr THEN j + 1 ELSE j
             li2 == IF info.first # cur_addr /\ i # j2
                    THEN [li EXCEPT ![j2 + 1] = info] ELSE li
         IN FilterLoopKeepFirst(li2, i + 1, j2, info.first)

\* "filter out line infos that doesn't contain any instructions": the loop
\* over i with the write position j, on the zero-based vector li
RECURSIVE FilterLoop(_, _, _, _)
FilterLoop(li, i, j, cur_addr) ==
    IF i >= Len(li)
    THEN SubSeq(li, 1, j + 1)
    ELSE LET info == At(li, i)
             j2 == IF info.first # cur_addr THEN j + 1 ELSE j
             li2 == IF i # j2 THEN [li EXCEPT ![j2 + 1] = info] ELSE li
         IN FilterLoop(li2, i + 1, j2, info.first)

FilterLineInfo(li) ==
    IF li = <<>> THEN li ELSE FilterLoop(li, 1, 0, At(li, 0).first)

\* a call made for the instruction at the offset off
Call(fn, off, arg, result, insertion) ==
    [fn |-> fn, off |-> off, arg |-> arg, result |-> result,
     insertion |-> insertion]
LookupCalls(off, looked) ==
    [i \in 1..Len(looked) |->
        Call("lookupSymbolName", off, looked[i].addr, looked[i].name,
             looked[i].insertion)]

\* what is written to the streamer
Item(kind, off, name, data) ==
    [kind |-> kind, off |-> off, name |-> name, data |-> data]

\* an instruction the bytes at an offset can hold, as getInstruction and the
\* instruction analysis describe it
Insn(S, Size, isBranch, evaluable, rel, refs, ops) ==
    [S |-> S, Size |-> Size, isBranch |-> isBranch, evaluable |-> evaluable,
     rel |-> rel, refs |-> refs, ops |-> ops]

Plain(S, Size) == Insn(S, Size, FALSE, FALSE, 0, <<>>, <<>>)
Failed(Size) == Plain("Fail", Size)
\* a direct branch or call to the instruction's address + rel
Branch(S, Size, rel) ==
    Insn(S, Size, TRUE, TRUE, rel,
         <<[type |-> In_Branch, value |-> rel]>>,
         <<[imm |-> Sub(rel, Size), pcrel |-> TRUE, ref |-> 1]>>)
\* an indirect branch
BranchReg(S, Size) == Insn(S, Size, TRUE, FALSE, 0, <<>>, <<>>)
\* a load from the instruction's address + rel
Load(S, Size, rel) ==
    Insn(S, Size, FALSE, FALSE, 0,
         <<[type |-> In_PCrel_Load, value |-> rel]>>, <<>>)
\* an instruction with the immediate operand imm
Immediate(S, Size, imm, pcrel) ==
    Insn(S, Size, FALSE, FALSE, 0, <<>>,
         <<[imm |-> imm, pcrel |-> pcrel, ref |-> 0]>>)
\* an instruction referring to the absolute address a
Reference(S, Size, a) ==
    Insn(S, Size, FALSE, FALSE, 0,
         <<[type |-> InOut_None, value |-> a]>>, <<>>)

\* the sizes of the instructions of an architecture with the minimum step m
Sizes(m) == IF m = FixedStep THEN {FixedStep} ELSE {ByteStep, ByteStep + 1}

\* the displacements of the branches and loads of the model: backwards out
\* of a short region, into an instruction, and forwards
Rels == {Sub(0, FixedStep), 1, FixedStep}

\* the instructions of the model for the minimum step m
Insns(m, mix) ==
    { Plain("Success", s) : s \in Sizes(m) }
    \cup
    (IF mix = "plain" THEN {}
     ELSE IF mix = "loads" THEN { Load("Success", m, m) }
     ELSE
        { Branch("Success", m, rel) : rel \in Rels }
        \cup { Plain("SoftFail", m),
               Branch("SoftFail", m, Sub(0, FixedStep)),
               BranchReg("Success", m),
               Load("Success", m, FixedStep),
               Immediate("Success", m, FixedStep, TRUE),
               Immediate("Success", m, Add(env.Fptr, FixedStep), FALSE),
               Reference("Success", m, Sub(env.Fptr, FixedStep)),
               Reference("Success", m, env.Fptr) })

\* what getInstruction can answer at the offset Index: a failure, with or
\* without a size, or an instruction that fits the rest of the region
Decodable(Index_) ==
    {Failed(0)}
    \cup { Failed(s) : s \in { x \in Sizes(input.MinStep) : Index_ + x <= env.Fsize } }
    \cup { i \in Insns(input.MinStep, input.mix) : Index_ + i.Size <= env.Fsize }

\* DIContext::getInliningInfoForAddress: the frames, innermost first; none
\* where the debug information has no inlining information
getInliningInfoForAddress(addr) ==
    IF addr \in DOMAIN input.inlining THEN input.inlining[addr] ELSE <<>>

\* What a read through the end iterator of the line table can give: any
\* address and any DILineInfo.  Of the addresses, those of the bytes of the
\* region still ahead can match; one other stands for the rest.
PastTheEndFrames == { Fr(<<"?">>, 0) }
PastTheEndAddrs(Index_) ==
    {NoAddr} \cup { Add(Add(env.Fptr, k), env.slide) : k \in (Index_ + 1)..(env.Fsize - 1) }

\* SetVerbosity that does not know "none"
SetVerbosityNoNone(v, c) ==
    IF c = "default" THEN "source"
    ELSE IF c = "source" THEN "source"
    ELSE v

\* DILineInfoPrinter::SetVerbosity
SetVerbosity(v, c) ==
    IF c = "default" THEN "source"
    ELSE IF c = "source" THEN "source"
    ELSE IF c = "none" THEN "none"
    ELSE v

\* Streamer->emitRawText(buf) unless buf.empty()
EmitBuf(kind, off, buf) ==
    IF buf = <<>> THEN <<>> ELSE <<Item(kind, off, <<>>, buf)>>

\* the step over illegible bytes with the size left as reported
NoMinStep(Size, m) == Size

\* the step over illegible bytes always the minimum step
AlwaysMinStep(Size, m) == m

\* "skip illegible bytes": the size of a failed instruction
FailSize(Size, m) == IF Size = 0 THEN m ELSE Size

\* the directive written for a failed instruction: the bytes it reads
RawBytes(Index_, Size) ==
    IF Size = 4
    THEN Item("raw", Index_, <<".long">>, [i \in 1..4 |-> Index_ + i - 1])
    ELSE Item("raw", Index_, <<".byte">>, [i \in 1..Size |-> Index_ + i - 1])

----------------------------------------------------------------------------
(* jl_dump_asm_internal: the two passes *)

\* the start without the test of DisAsm
StartAnyTarget ==
    /\ pc = "entry"
    /\ di_lineinfo' = IF input.di_ctx THEN FilterLineInfo(input.lineinfo) ELSE <<>>
    /\ stream' = IF input.binary
                 THEN <<Item("origin", 0, <<>>, <<env.Fptr, env.Fsize>>)>>
                 ELSE <<>>
    /\ pc' = "pass"
    /\ UNCHANGED <<annVars, op, scenVars, symVars, input, pass, Index, insSize,
                   nextLineAddr, di_lineIter, decoded, iters, calls, ub>>

\* up to the loop over the passes: the missing disassembler, the line table
\* and the header of the binary output
Start ==
    /\ pc = "entry"
    /\ IF ~input.DisAsm
       THEN /\ stream' = <<Item("error", 0, <<>>, <<>>)>>
            /\ pc' = "done"
            /\ UNCHANGED di_lineinfo
       ELSE /\ di_lineinfo' = IF input.di_ctx
                              THEN FilterLineInfo(input.lineinfo)
                              ELSE <<>>
            /\ stream' = IF input.binary
                         THEN <<Item("origin", 0, <<>>, <<env.Fptr, env.Fsize>>)>>
                         ELSE <<>>
            /\ pc' = "pass"
    /\ UNCHANGED <<annVars, op, scenVars, symVars, input, pass, Index, insSize,
                   nextLineAddr, di_lineIter, decoded, iters, calls, ub>>

\* the head of a pass, up to the disassembly loop
BeginPass ==
    /\ pc = "pass"
    /\ LET verb == SetVerbosity("source", input.debuginfo)
           begins == pass # 0 /\ input.di_ctx /\ di_lineinfo # <<>>
           first == At(di_lineinfo, 0)
           r == IF begins /\ first.first # Add(env.Fptr, env.slide)
                THEN emit_lineinfo(<<>>, 0, TRUE, verb, <<first.second>>)
                ELSE [context |-> <<>>, inline_depth |-> 0, out |-> <<>>]
       IN /\ context' = r.context
          /\ inline_depth' = r.inline_depth
          /\ bracket_outer' = TRUE
          /\ verbosity' = verb
          /\ nextLineAddr' = IF begins THEN first.first ELSE NoAddr
          /\ stream' = stream \o EmitBuf("lineinfo", 0, r.out)
          /\ calls' = IF begins /\ first.first # Add(env.Fptr, env.slide)
                       THEN calls \o <<Call("emit_lineinfo", -1, <<first.second>>,
                                            r.out, FALSE)>>
                       ELSE calls
    /\ di_lineIter' = 0
    /\ Index' = 0
    /\ insSize' = 0
    /\ iters' = 0
    /\ pc' = "loop"
    /\ UNCHANGED <<text, op, scenVars, symVars, input, pass, di_lineinfo, decoded, ub>>

\* the names of the MCSymbols of Ctx that are defined: those emitLabel got
Defined == { stream[k].name : k \in { i \in 1..Len(stream) : stream[i].kind = "label" } }

\* One iteration of the disassembly loop.  assert(symb->isUndefined()) in
\* lookupSymbol fails when the name of the address is that of a label
\* already emitted: a build with assertions aborts there, after the line
\* information of the offset was written; a build without goes on.
Iterate ==
    /\ pc = "loop"
    /\ Index < env.Fsize
    /\ LET here == Add(Add(Index, env.Fptr), env.slide)
           atLine == /\ pass # 0 /\ nextLineAddr # NoAddr /\ here = nextLineAddr
                     /\ input.di_ctx
           n == Len(di_lineinfo)
           dbg == getInliningInfoForAddress(here)
           pastEnd == atLine /\ di_lineIter + 1 >= n
           here_symbol == lookupSymbol(Table, Add(env.Fptr, Index))
           redefined == pass # 0 /\ ~here_symbol.null
                        /\ here_symbol.str \in Defined
       IN \E o \in (IF pass = 0 THEN Decodable(Index) ELSE {decoded[Index]}),
             abort \in (IF redefined THEN BOOLEAN ELSE {FALSE}),
             endAddr \in (IF pastEnd THEN PastTheEndAddrs(Index) ELSE {NoAddr}),
             endInfo \in PastTheEndFrames :
          LET DI == IF dbg # <<>> THEN dbg
                    ELSE IF di_lineIter < n
                    THEN <<At(di_lineinfo, di_lineIter).second>>
                    ELSE <<endInfo>>
              lr == IF atLine
                    THEN emit_lineinfo(context, inline_depth, bracket_outer,
                                       verbosity, DI)
                    ELSE [context |-> context, inline_depth |-> inline_depth,
                          out |-> <<>>]
              pcaddr == Add(env.Fptr, Index)
              symbol == IF pass # 0 THEN lookupSymbol(Table, pcaddr) ELSE NULL
              label == IF symbol.null THEN <<>>
                       ELSE <<Item("label", Index, symbol.str, <<>>)>>
              sym == Symbolize(Table, pass, pcaddr,
                               IF pass # 0 THEN o.refs ELSE <<>>)
              size == IF o.S = "Fail" THEN FailSize(o.Size, input.MinStep)
                      ELSE o.Size
              oc == IF pass # 0 /\ o.S # "Fail"
                    THEN OperandComments(sym.Table, pcaddr, o.ops, sym.out)
                    ELSE [Table |-> sym.Table, out |-> <<>>, looked |-> <<>>]
              out == IF pass = 0 THEN <<>>
                     ELSE IF o.S = "Fail" THEN <<RawBytes(Index, size)>>
                     ELSE (IF o.S = "SoftFail"
                           THEN <<Item("softfail", Index, <<>>, <<>>)>>
                           ELSE <<>>)
                          \o (IF input.binary
                              THEN <<Item("rawcode", Index, <<>>, <<size>>)>>
                              ELSE <<>>)
                          \o <<Item("inst", Index, <<>>, <<sym.out, oc.out>>)>>
          IN /\ context' = lr.context
             /\ inline_depth' = lr.inline_depth
             /\ di_lineIter' = IF atLine THEN di_lineIter + 1 ELSE di_lineIter
             /\ nextLineAddr' = IF ~atLine THEN nextLineAddr
                                ELSE IF di_lineIter + 1 < n
                                THEN At(di_lineinfo, di_lineIter + 1).first
                                ELSE endAddr
             /\ ip' = pcaddr
             /\ Table' = IF abort THEN Table
                         ELSE IF pass = 0
                         THEN (IF o.S # "Fail" /\ input.MCIA /\ o.isBranch
                                  /\ o.evaluable
                               THEN insertAddress(Table, Add(pcaddr, o.rel))
                               ELSE Table)
                         ELSE oc.Table
             /\ stream' = stream \o EmitBuf("lineinfo", Index, lr.out)
                                 \o (IF abort THEN <<>> ELSE label \o out)
             /\ calls' = calls
                          \o (IF atLine
                              THEN <<Call("emit_lineinfo", Index, DI, lr.out, FALSE)>>
                              ELSE <<>>)
                          \o (IF abort THEN <<>>
                              ELSE LookupCalls(Index, sym.looked \o oc.looked))
             /\ decoded' = IF pass = 0 THEN (Index :> o) @@ decoded ELSE decoded
             /\ insSize' = IF abort THEN insSize ELSE size
             /\ Index' = IF abort THEN Index ELSE Index + size
             /\ ub' = ub \cup (IF pastEnd \/ (atLine /\ dbg = <<>> /\ di_lineIter >= n)
                               THEN {"end of the line table"} ELSE {})
                         \cup (IF ~abort /\ pass # 0 /\ o.S = "Fail" /\ size = 4
                                  /\ Index + size > env.Fsize
                               THEN {"past the region"} ELSE {})
             /\ iters' = IF abort THEN iters ELSE iters + 1
             /\ pc' = IF abort THEN "aborted" ELSE pc
    /\ UNCHANGED <<bracket_outer, verbosity, text, op, scenVars, env, ncreate,
                   input, pass, di_lineinfo>>

\* the end of a pass with createSymbols after either pass
EndPassCreateBoth ==
    /\ pc = "loop"
    /\ Index >= env.Fsize
    /\ ip' = env.Fptr
    /\ Table' = createSymbols(Table, env.Fptr)
    /\ ncreate' = ncreate + 1
    /\ LET f == emit_finish(context, inline_depth, bracket_outer)
       IN IF pass # 0 /\ input.di_ctx
          THEN /\ context' = f.context
               /\ inline_depth' = f.inline_depth
               /\ stream' = stream \o EmitBuf("lineinfo", Index, f.out)
          ELSE UNCHANGED <<context, inline_depth, stream>>
    /\ pass' = pass + 1
    /\ pc' = IF pass + 1 < 2 THEN "pass" ELSE "done"
    /\ UNCHANGED <<bracket_outer, verbosity, text, op, scenVars, env, input,
                   Index, insSize, nextLineAddr, di_lineinfo, di_lineIter,
                   decoded, iters, calls, ub>>

\* the end of a pass
EndPass ==
    /\ pc = "loop"
    /\ Index >= env.Fsize
    /\ ip' = env.Fptr
    /\ Table' = IF pass = 0 THEN createSymbols(Table, env.Fptr) ELSE Table
    /\ ncreate' = IF pass = 0 THEN ncreate + 1 ELSE ncreate
    /\ LET f == emit_finish(context, inline_depth, bracket_outer)
       IN IF pass # 0 /\ input.di_ctx
          THEN /\ context' = f.context
               /\ inline_depth' = f.inline_depth
               /\ stream' = stream \o EmitBuf("lineinfo", Index, f.out)
          ELSE UNCHANGED <<context, inline_depth, stream>>
    /\ pass' = pass + 1
    /\ pc' = IF pass + 1 < 2 THEN "pass" ELSE "done"
    /\ UNCHANGED <<bracket_outer, verbosity, text, op, scenVars, env, input,
                   Index, insSize, nextLineAddr, di_lineinfo, di_lineIter,
                   decoded, iters, calls, ub>>

\* the line tables getLineInfoForAddressRange can return: entries in the
\* order of their addresses, at the offsets offs
LineEntry(off, fr) ==
    [first |-> Add(Add(env.Fptr, off), env.slide), second |-> fr]
LineTables(offs) ==
    { s \in StacksOf({ LineEntry(off, fr) : off \in offs,
                       fr \in {Fr(<<"f">>, 1), Fr(<<"g">>, 1)} }, 0, MaxLines) :
        \A i \in 1..(Len(s) - 1) : s[i].first <= s[i + 1].first }

\* the inlining information of the debug information: none, or g inlined
\* into f at the first instruction and h into g into f one step further
NoInlining == [a \in {} |-> <<>>]
Inlinings(m) ==
    { NoInlining,
      [a \in {Add(env.Fptr, env.slide), Add(Add(env.Fptr, m), env.slide)} |->
         IF a = Add(env.Fptr, env.slide)
         THEN <<Fr(<<"g">>, 1), Fr(<<"f">>, 1)>>
         ELSE <<Fr(<<"h">>, 1), Fr(<<"g">>, 1), Fr(<<"f">>, 1)>>] }

Input(DisAsm, MCIA, m, di_ctx, lineinfo, inlining, debuginfo, binary, mix) ==
    [DisAsm |-> DisAsm, MCIA |-> MCIA, MinStep |-> m, di_ctx |-> di_ctx,
     lineinfo |-> lineinfo, inlining |-> inlining, debuginfo |-> debuginfo,
     binary |-> binary, mix |-> mix]

\* runs without debug information, over every instruction of the model
SymbolRuns ==
    \E m \in {FixedStep, ByteStep}, MCIA \in BOOLEAN, bin \in BOOLEAN :
       /\ env \in { Env(r, 0, ob, own, TRUE, TRUE) :
                      r \in { x \in Regions : x.Fsize <= MaxUnits * m
                                              /\ (MCIA \/ x.Fsize = m) },
                      ob \in BOOLEAN, own \in BOOLEAN }
       /\ input = Input(TRUE, MCIA, m, FALSE, <<>>, NoInlining, "source",
                        bin, "all")

\* runs with debug information, over plain instructions
LineRuns ==
    \E m \in {FixedStep, ByteStep} :
       /\ env \in { Env(r, sl, FALSE, FALSE, TRUE, TRUE) :
                      r \in { x \in Regions : x.Fsize = MaxUnits * m },
                      sl \in {0, 1} }
       /\ input \in { Input(TRUE, TRUE, m, TRUE, li, inl, dbg, bin, "plain") :
                        li \in LineTables({ x \in {0, 2, m} : x < env.Fsize }),
                        inl \in Inlinings(m),
                        dbg \in {"default", "source", "none"}, bin \in {FALSE} }

\* runs over one-byte instructions that load from the address after them,
\* in a function the runtime knows
LabelRuns ==
    /\ env = Env([Fptr |-> 8, Fsize |-> (MaxUnits + 1) * ByteStep], 0, FALSE,
                 TRUE, TRUE, TRUE)
    /\ input = Input(TRUE, TRUE, ByteStep, FALSE, <<>>, NoInlining, "source",
                     FALSE, "loads")

\* a target without a disassembler
NoDisassembler ==
    /\ env = Env([Fptr |-> 8, Fsize |-> FixedStep], 0, FALSE, FALSE, TRUE, TRUE)
    /\ input \in { Input(FALSE, FALSE, FixedStep, di, li, NoInlining, "source",
                          bin, "plain") :
                      di \in BOOLEAN, bin \in BOOLEAN,
                      li \in {<<>>, <<LineEntry(0, Fr(<<"f">>, 1))>>} }

Init ==
    /\ context = <<>> /\ inline_depth = 0 /\ bracket_outer = TRUE
    /\ verbosity = "source" /\ text = <<>>
    /\ op = Idle /\ script = <<>> /\ log = <<>>
    /\ (SymbolRuns \/ LineRuns \/ LabelRuns \/ NoDisassembler)
    /\ Table = EmptyTable /\ ip = 0 /\ ncreate = 0
    /\ pc = "entry" /\ pass = 0 /\ Index = 0 /\ insSize = 0
    /\ nextLineAddr = NoAddr /\ di_lineinfo = <<>> /\ di_lineIter = 0
    /\ decoded = <<>> /\ stream = <<>> /\ iters = 0 /\ calls = <<>> /\ ub = {}

Next == Start \/ BeginPass \/ Iterate \/ EndPass

Spec == Init /\ [][Next]_vars

----------------------------------------------------------------------------
(* Properties *)

Range(s) == { s[i] : i \in 1..Len(s) }

\* the number of maximal runs of consecutive frames that share a function
\* name, a trailing ';' ignored
Runs(s) ==
    Cardinality({ i \in 1..Len(s) : i = 1 \/ Method(s[i]) # Method(s[i - 1]) })

RECURSIVE SumGlyphs(_, _)
SumGlyphs(lines, kind) ==
    IF lines = <<>> THEN 0
    ELSE (IF Head(lines).kind = kind THEN Head(lines).glyphs ELSE 0)
         + SumGlyphs(Tail(lines), kind)

OpenLines(lines) == { i \in 1..Len(lines) : lines[i].kind = "open" }
CloseLines(lines) == { i \in 1..Len(lines) : lines[i].kind = "close" }

\* C1: after every emit_lineinfo and emit_finish call, from the reset state
\* on, inline_depth is the number of maximal runs of consecutive context
\* entries sharing a function name (trailing ';' ignored).
Thm_C1 == inline_depth = Runs(context)

Wit_C1 ==
    /\ op.name = "emit_lineinfo"
    /\ Len(op.pre.context) = 3
    /\ Len(context) = 3
    /\ inline_depth = 2
    /\ text # <<>>
    /\ \E i \in 1..2 : /\ context[i].FunctionName # context[i + 1].FunctionName
                       /\ Method(context[i]) = Method(context[i + 1])

\* the whole script of a scripted run
FullScript == [i \in 1..Len(log) |-> log[i].arg] \o script

IsPushPop ==
    /\ Len(FullScript) = 3
    /\ Method(FullScript[2][1]) # Method(FullScript[1][1])
    /\ Method(FullScript[2][1]) # Method(FullScript[3][1])
    /\ Method(FullScript[1][1]) # Method(FullScript[3][1])

\* C2: for frames A, B, C of pairwise different functions, [A,B] then [A]
\* then [A,C] write: an opening of A and an opening of B; one closing line
\* of one glyph and no opening; an opening of C only.  context never holds
\* both B and C.
Thm_C2 ==
    IsPushPop =>
        LET A == FullScript[2][1]
            B == FullScript[1][1]
            C == FullScript[3][1]
        IN /\ Len(log) >= 1 =>
                 /\ Len(log[1].text) = 2
                 /\ log[1].text[1].kind = "open"
                 /\ log[1].text[1].frames = <<A>>
                 /\ log[1].text[1].glyphs = (IF bracket_outer THEN 1 ELSE 0)
                 /\ log[1].text[2].kind = "open"
                 /\ log[1].text[2].frames = <<B>>
                 /\ log[1].text[2].glyphs = 1
           /\ Len(log) >= 2 =>
                 /\ Len(log[2].text) = 1
                 /\ log[2].text[1].kind = "close"
                 /\ log[2].text[1].glyphs = 1
           /\ Len(log) >= 3 =>
                 /\ Len(log[3].text) = 1
                 /\ log[3].text[1].kind = "open"
                 /\ log[3].text[1].frames = <<C>>
                 /\ log[3].text[1].glyphs = 1
           /\ ~(B \in Range(context) /\ C \in Range(context))

Wit_C2 ==
    /\ IsPushPop
    /\ Len(log) = 3
    /\ context = <<FullScript[2][1], FullScript[3][1]>>
    /\ log[1].context = <<FullScript[2][1], FullScript[1][1]>>
    /\ inline_depth = 2

IsRecursion == Len(FullScript) = 2 /\ Len(log) = 2 /\ SameMethod(FullScript[2])

\* C3: a stack of frames of one function leaves inline_depth at 1 and is
\* written on at most one line with at most one opening glyph; on a fresh
\* printer it is written as one opening line naming the outermost frame
\* with the other frames as same-line continuations (three frames f with
\* increasing lines: one line, two continuations), the opening glyph being
\* the one of the outermost frame.
Thm_C3 ==
    IsRecursion =>
        /\ log[2].inline_depth = 1
        /\ Cardinality(OpenLines(log[2].text)) <= 1
        /\ SumGlyphs(log[2].text, "open") <= 1
        /\ log[1].context = <<>> =>
              /\ Len(log[2].text) = 1
              /\ log[2].text[1].kind = "open"
              /\ log[2].text[1].frames = Reverse(log[2].arg)
              /\ log[2].text[1].glyphs = (IF bracket_outer THEN 1 ELSE 0)

Wit_C3 ==
    /\ IsRecursion
    /\ log[1].context = <<>>
    /\ log[2].arg = <<Fr(<<"f">>, 3), Fr(<<"f">>, 2), Fr(<<"f">>, 1)>>
    /\ bracket_outer
    /\ inline_depth = 1
    /\ Len(context) = 3

\* C4: emit_lineinfo with an empty frame stack writes nothing and leaves
\* context and inline_depth as they were, in any printer state.
Thm_C4 ==
    (op.name = "emit_lineinfo" /\ op.arg = <<>>) =>
        /\ text = <<>>
        /\ context = op.pre.context
        /\ inline_depth = op.pre.inline_depth

Wit_C4 ==
    /\ op.name = "emit_lineinfo"
    /\ op.arg = <<>>
    /\ verbosity = "source"
    /\ Len(context) = 2
    /\ inline_depth = 2

\* C5 as stated: emit_finish with a frame open writes one line of as many
\* closing glyphs as context has runs, for either bracket_outer, and resets
\* context and inline_depth.
Orig_C5 ==
    (op.name = "emit_finish" /\ op.pre.context # <<>>) =>
        /\ text = <<CloseLine(0, Runs(op.pre.context))>>
        /\ context = <<>>
        /\ inline_depth = 0

\* C5 amended: the line has as many closing glyphs as context has runs when
\* the outer frame is bracketed and one fewer when it is not, and is not
\* written at all when that number is 0; context and inline_depth are reset.
Thm_C5 ==
    (op.name = "emit_finish" /\ op.pre.context # <<>>) =>
        LET n == Runs(op.pre.context) - (IF bracket_outer THEN 0 ELSE 1)
        IN /\ text = (IF n > 0 THEN <<CloseLine(0, n)>> ELSE <<>>)
           /\ context = <<>>
           /\ inline_depth = 0

Wit_C5 ==
    /\ op.name = "emit_finish"
    /\ ~bracket_outer
    /\ Runs(op.pre.context) = 2
    /\ text = <<CloseLine(0, 1)>>

\* C6: emit_finish on a printer in the reset state (fresh, or right after
\* another emit_finish) writes nothing.
Thm_C6 ==
    (op.name = "emit_finish" /\ op.pre = State(<<>>, 0)) => text = <<>>

Wit_C6 ==
    /\ op.name = "emit_finish"
    /\ op.pre = State(<<>>, 0)
    /\ bracket_outer
    /\ text = <<>>

\* C7: every iteration of the disassembly loop, in the first pass and in the
\* second, leaves the offset strictly larger than it found it, whatever
\* getInstruction answered, and is at most the Fsize-th iteration of its pass.
Thm_C7 ==
    [][(pc = "loop" /\ pc' = "loop" /\ iters' # iters) =>
          (Index' > Index /\ iters' = iters + 1 /\ iters' <= env.Fsize)]_vars

\* a second pass of as many iterations as the region has bytes, the first of
\* them over a byte that getInstruction failed on without a size
Wit_C7 ==
    /\ pc = "done"
    /\ input.MinStep = ByteStep
    /\ env.Fsize = MaxUnits
    /\ iters = env.Fsize
    /\ decoded[0] = Failed(0)

\* the items written for the instruction at the offset off
ItemsAt(kind, off) ==
    { k \in 1..Len(stream) : stream[k].kind = kind /\ stream[k].off = off }
\* the direct branches and calls decoded whose target is the address of an
\* instruction of the region
BranchesInRange ==
    { o \in DOMAIN decoded :
        /\ decoded[o].S # "Fail" /\ decoded[o].isBranch /\ decoded[o].evaluable
        /\ InRegion(Add(Add(env.Fptr, o), decoded[o].rel))
        /\ Sub(Add(Add(env.Fptr, o), decoded[o].rel), env.Fptr) \in DOMAIN decoded }

RuntimeAnswer(addr) ==
    IF addr \in DOMAIN env.runtime THEN env.runtime[addr].str ELSE EmptyName

\* C9: createSymbols gives every recorded (still unnamed) address: the
\* label "L" + (address - ip) if Fptr <= address < Fptr + Fsize; otherwise
\* the runtime's name if that is not empty; otherwise no name.  It adds no
\* address to the table.
Thm_C9 ==
    op.name = "createSymbols" =>
        /\ DOMAIN Table = DOMAIN op.pre.Table
        /\ \A a \in DOMAIN op.pre.Table :
              op.pre.Table[a] = EmptyName =>
                 Table[a] =
                    IF env.Fptr <= a /\ a < env.Fptr + env.Fsize
                    THEN <<"L", (a - op.pre.ip) % AddrMod>>
                    ELSE RuntimeAnswer(a)

\* createSymbols, with the instruction pointer on the last byte of the region,
\* over the last address of the region, the first past it, one the runtime
\* names and one it has no name for
Wit_C9 ==
    /\ op.name = "createSymbols"
    /\ op.pre.ip # env.Fptr
    /\ DOMAIN op.pre.Table = SymAddrs \ {env.Fptr}
    /\ \A a \in DOMAIN op.pre.Table : op.pre.Table[a] = EmptyName
    /\ env.Fsize = MaxSize
    /\ Table[Add(env.Fptr, env.Fsize - 1)] = <<"L", 0>>
    /\ Table[Add(env.Fptr, env.Fsize)] = EmptyName
    /\ Table[Sub(env.Fptr, 4)] = <<"julia_g">>
    /\ Table[Sub(env.Fptr, 8)] = EmptyName

\* C10: a second createSymbols (after any lookupSymbolName and setIP calls
\* in between) changes no name that is not empty.
Orig_C10 ==
    (op.name = "createSymbols" /\ op.pre.ncreate >= 1) =>
        \A a \in DOMAIN op.pre.Table :
            op.pre.Table[a] # EmptyName => Table[a] = op.pre.Table[a]

\* the const char* of a std::string: NULL for the empty one
NameOrNull(name) == IF name = EmptyName THEN NULL ELSE CStr(name)
\* the calls of lookupSymbolName made so far
Lookups == { k \in 1..Len(calls) : calls[k].fn = "lookupSymbolName" }
\* the label of an address of the region: "L" and its offset
LabelOf(addr) == <<"L", (addr - env.Fptr) % AddrMod>>

\* C11: every lookupSymbolName call for an address of the region, all made
\* after createSymbols, returns the offset label of the address, or what the
\* runtime answers for the address, or NULL.
Orig_C11 ==
    \A k \in Lookups :
        InRegion(calls[k].arg) =>
            calls[k].result \in { CStr(LabelOf(calls[k].arg)),
                                  NameOrNull(RuntimeAnswer(calls[k].arg)),
                                  NULL }

Thm_C13 ==
    /\ op.name = "insertAddress" =>
          /\ DOMAIN Table = DOMAIN op.pre.Table \cup {op.arg}
          /\ \A a \in DOMAIN op.pre.Table : a # op.arg => Table[a] = op.pre.Table[a]
          /\ op.arg \notin DOMAIN op.pre.Table =>
                Table[op.arg] = EmptyName /\ lookupSymbol(Table, op.arg) = NULL
          /\ (op.arg \in DOMAIN op.pre.Table /\ op.pre.Table[op.arg] = EmptyName)
                => Table = op.pre.Table
    /\ op.name \in {"lookupSymbol", "setIP"} => Table = op.pre.Table

\* insertAddress of an address inserted before and still without a name, in
\* a table that holds a named address as well
Wit_C13 ==
    /\ op.name = "insertAddress"
    /\ op.arg \in DOMAIN op.pre.Table
    /\ op.pre.Table[op.arg] = EmptyName
    /\ \E a \in DOMAIN Table : Table[a] # EmptyName

\* C14: a lookupSymbolName call for an address that createSymbols did not
\* see returns the offset label if the address is in the region, otherwise
\* what the runtime answers, NULL when that is nothing or empty.
Orig_C14 ==
    \A k \in Lookups :
        calls[k].insertion =>
            calls[k].result =
                IF InRegion(calls[k].arg)
                THEN CStr(LabelOf(calls[k].arg))
                ELSE NameOrNull(RuntimeAnswer(calls[k].arg))

\* C15: of two lookupSymbolName calls for one address, the later returns
\* what the earlier returned and does not insert, so it looks nothing up.
Thm_C15 ==
    \A i \in Lookups : \A j \in Lookups :
        (i < j /\ calls[i].arg = calls[j].arg) =>
            /\ calls[j].result = calls[i].result
            /\ ~calls[j].insertion

\* two instructions referring to one address that is not in the table and
\* that nothing is known about
Wit_C15 ==
    \E i \in Lookups : \E j \in Lookups :
        /\ i < j /\ calls[i].arg = calls[j].arg /\ calls[i].off # calls[j].off
        /\ calls[i].insertion
        /\ calls[i].result = NULL

\* the names printed with the instruction of the item it: those the
\* symbolizer got from SymbolLookup and those added as comments
AttachedNames(it) ==
    { it.data[1][i].ret.str :
        i \in { x \in DOMAIN it.data[1] : ~it.data[1][x].ret.null } }
    \cup { it.data[1][i].ReferenceName.str :
        i \in { x \in DOMAIN it.data[1] : ~it.data[1][x].ReferenceName.null } }
    \cup Range(it.data[2])
\* the names lookupSymbolName returned for the instruction at the offset off
NamesFound(off) ==
    { calls[k].result.str :
        k \in { x \in Lookups : calls[x].off = off /\ ~calls[x].result.null } }
\* the offsets the second pass has been through
Emitted == { o \in DOMAIN decoded : pass > 1 \/ (pass = 1 /\ pc = "loop" /\ o < Index) }

\* C16: an address lookupSymbolName returned NULL for stays in the table
\* without a name and lookupSymbol has no symbol for it; no label is declared
\* at an address the table has no name for; an instruction is printed with
\* exactly the names its lookups found, the NULL ones adding nothing; and
\* every offset the second pass has been through has its instruction or its
\* raw bytes in the output.
Thm_C16 ==
    /\ \A k \in Lookups :
          calls[k].result = NULL =>
             /\ Table[calls[k].arg] = EmptyName
             /\ lookupSymbol(Table, calls[k].arg) = NULL
    /\ \A a \in DOMAIN Table :
          Table[a] = EmptyName => ItemsAt("label", Sub(a, env.Fptr)) = {}
    /\ \A k \in 1..Len(stream) :
          stream[k].kind = "inst" =>
             AttachedNames(stream[k]) = NamesFound(stream[k].off)
    /\ \A o \in Emitted :
          IF decoded[o].S = "Fail"
          THEN ItemsAt("raw", o) # {} /\ ItemsAt("inst", o) = {}
          ELSE ItemsAt("inst", o) # {}

\* a run in which an instruction referred to the address of a later
\* instruction that nothing is known about, and a later instruction was
\* printed with a name
Wit_C16 ==
    /\ pc = "done"
    /\ \E k \in Lookups :
          /\ calls[k].result = NULL
          /\ InRegion(calls[k].arg)
          /\ Sub(calls[k].arg, env.Fptr) \in DOMAIN decoded
          /\ calls[k].off < Sub(calls[k].arg, env.Fptr)
          /\ \E n \in Lookups : calls[n].off > calls[k].off /\ ~calls[n].result.null

\* the calls of emit_lineinfo made so far
Annotations == { k \in 1..Len(calls) : calls[k].fn = "emit_lineinfo" }

\* C17: with debuginfo "none" no emit_lineinfo call returns text, whatever
\* the frames, the printer stays without open frames, and nothing of the
\* printer, emit_finish included, reaches the output; with "source" and
\* "default" the printer of a pass is set to print, and its first call with
\* frames returns text.
Thm_C17 ==
    /\ (input.DisAsm /\ input.debuginfo = "none") =>
          /\ \A k \in Annotations : calls[k].result = <<>>
          /\ context = <<>> /\ inline_depth = 0
          /\ ItemsAt("lineinfo", 0) = {}
          /\ \A k \in 1..Len(stream) : stream[k].kind # "lineinfo"
          /\ pc \in {"loop", "done"} => verbosity = "none"
    /\ (input.DisAsm /\ input.debuginfo \in {"source", "default"}) =>
          /\ pc \in {"loop", "done"} => verbosity = "source"
          /\ \A k \in Annotations :
                (calls[k].arg # <<>> /\ \A n \in Annotations : n >= k)
                   => calls[k].result # <<>>

\* a whole run with "none" in which emit_lineinfo was called with inlined
\* frames twice
Wit_C17 ==
    /\ pc = "done"
    /\ input.debuginfo = "none"
    /\ \E i \in Annotations : \E j \in Annotations :
          i < j /\ Len(calls[i].arg) > 1 /\ Len(calls[j].arg) > Len(calls[i].arg)

\* the offsets the walk visits whose slid address has a line-table entry
LineOffsets ==
    { off \in DOMAIN decoded :
        \E i \in 1..Len(di_lineinfo) :
           di_lineinfo[i].first = Add(Add(env.Fptr, off), env.slide) }

\* C18: after the second pass, every visited offset whose slid address has a
\* line-table entry has had its emit_lineinfo call, with the inlining chain
\* of the address when there is one, and the text of the call stands in the
\* output before the label, raw bytes or instruction of the offset.
Orig_C18 ==
    (pc = "done" /\ input.DisAsm /\ input.di_ctx) =>
       \A off \in LineOffsets :
          /\ \E k \in Annotations :
                /\ calls[k].off = off
                /\ LET dbg == getInliningInfoForAddress(
                                 Add(Add(env.Fptr, off), env.slide))
                   IN dbg # <<>> => calls[k].arg = dbg
                /\ calls[k].result # <<>> =>
                      \E i \in ItemsAt("lineinfo", off) :
                         /\ stream[i].data = calls[k].result
                         /\ \A j \in 1..Len(stream) :
                               (stream[j].off = off
                                  /\ stream[j].kind \in {"label", "inst", "raw",
                                                         "softfail", "rawcode"})
                               => i < j

\* what a step appends to the output
Appended == SubSeq(stream', Len(stream) + 1, Len(stream'))

\* C19: in the second pass the visit of an offset writes a label, once and
\* with the name of the table, exactly when the SymbolTable holds a
\* non-empty name for the address on arrival at the offset, and writes it
\* before the raw bytes or the instruction of the offset.
Orig_C19 ==
    [][(pc = "loop" /\ pass # 0 /\ Index < env.Fsize) =>
          LET addr == Add(env.Fptr, Index)
              named == addr \in DOMAIN Table /\ Table[addr] # EmptyName
              labels == { k \in 1..Len(Appended) : Appended[k].kind = "label" }
          IN /\ named <=> labels # {}
             /\ Cardinality(labels) <= 1
             /\ \A k \in labels :
                   /\ Appended[k].off = Index
                   /\ Appended[k].name = Table[addr]
                   /\ \A j \in 1..Len(Appended) :
                         Appended[j].kind \in {"raw", "softfail", "rawcode", "inst"}
                            => k < j]_vars

\* C20 as stated: an iteration in which getInstruction fails, in either
\* pass, moves the offset on by the minimum step of the architecture and
\* stays in the loop, and a pass ends only at the end of the region.
Orig_C20 ==
    [][/\ (pc = "loop" /\ iters' = iters + 1 /\ decoded'[Index].S = "Fail") =>
             /\ Index' = Index + input.MinStep
             /\ pc' = "loop" /\ pass' = pass
       /\ (pc = "loop" /\ pc' \in {"pass", "done"}) => Index >= env.Fsize]_vars

\* C20, amended: an iteration in which getInstruction fails, in either pass,
\* moves the offset on by the size getInstruction reported for the failure,
\* by the minimum step of the architecture (4 or 1) when it reported none,
\* and stays in the loop; a pass ends only at the end of the region.
Thm_C20 ==
    [][/\ (pc = "loop" /\ iters' = iters + 1 /\ decoded'[Index].S = "Fail") =>
             /\ Index' = Index + (IF decoded'[Index].Size = 0
                                  THEN (IF input.MinStep = FixedStep THEN 4 ELSE 1)
                                  ELSE decoded'[Index].Size)
             /\ pc' = "loop" /\ pass' = pass
       /\ (pc = "loop" /\ pc' \in {"pass", "done"}) => Index >= env.Fsize]_vars

\* both passes done over a region whose first two bytes getInstruction
\* failed on as one unit, on an architecture with the minimum step 1, and
\* whose next byte it decoded
Wit_C20 ==
    /\ pc = "done"
    /\ input.MinStep = ByteStep
    /\ 0 \in DOMAIN decoded /\ decoded[0] = Failed(2)
    /\ 2 \in DOMAIN decoded /\ decoded[2].S = "Success"
    /\ ItemsAt("raw", 0) # {} /\ ItemsAt("inst", 2) # {}

\* the offsets of the second pass whose decoding failed and was carried out
FailedOffsets ==
    { off \in DOMAIN decoded :
        /\ decoded[off].S = "Fail"
        /\ (pc = "done" \/ (pc \in {"loop", "aborted"} /\ pass = 1 /\ off < Index)) }

\* C21: the first pass writes nothing; in the second pass a failed decoding
\* writes one raw item at its offset, a single ".long" where instructions
\* have the fixed width and one ".byte" per skipped byte elsewhere, and the
\* bytes shown are those from the offset up to the next offset visited, all
\* of them bytes of the region.
Orig_C21 ==
    /\ pass = 0 => \A k \in 1..Len(stream) : stream[k].kind # "raw"
    /\ \A off \in FailedOffsets :
          LET step == IF decoded[off].Size = 0 THEN input.MinStep
                      ELSE decoded[off].Size
          IN /\ Cardinality(ItemsAt("raw", off)) = 1
             /\ \A k \in ItemsAt("raw", off) :
                   /\ stream[k].name = IF input.MinStep = FixedStep
                                       THEN <<".long">> ELSE <<".byte">>
                   /\ stream[k].data = [i \in 1..step |-> off + i - 1]
                   /\ \A i \in 1..Len(stream[k].data) :
                         stream[k].data[i] < env.Fsize

\* C22: without a disassembler for the target the call writes the error
\* message and nothing else and is over: no pass is begun, nothing is
\* decoded, no call of the printer or of the SymbolTable is made and the
\* table stays empty; with a disassembler no error message is written.
Thm_C22 ==
    /\ (~input.DisAsm /\ pc \notin {"none", "entry"}) =>
          /\ pc = "done"
          /\ stream = <<Item("error", 0, <<>>, <<>>)>>
          /\ pass = 0 /\ iters = 0 /\ decoded = <<>>
          /\ calls = <<>> /\ ncreate = 0
          /\ Table = EmptyTable
          /\ context = <<>> /\ inline_depth = 0
    /\ input.DisAsm => \A k \in 1..Len(stream) : stream[k].kind # "error"

\* the call without a disassembler has returned
Wit_C22 ==
    /\ ~input.DisAsm
    /\ pc = "done"
    /\ Len(stream) = 1 /\ stream[1].kind = "error"

\* the names of the table that are not empty
Named(T) == { a \in DOMAIN T : T[a] # EmptyName }

\* C23: createSymbols is called once in a call, in the step that ends the
\* first pass at the end of the region.  Until then nothing but the header
\* of the binary output is written, no emit_lineinfo or lookupSymbolName
\* call is made and no address has a name; the first pass changes the table
\* only by recording addresses.  After it no address is recorded: every
\* address that enters the table was inserted by a lookupSymbolName call of
\* the step.
Thm_C23 ==
    [][/\ ncreate' <= 1
       /\ ncreate' # ncreate =>
             /\ pass = 0 /\ pass' = 1 /\ pc = "loop" /\ Index >= env.Fsize
             /\ ncreate' = 1
             /\ Table' = createSymbols(Table, env.Fptr)
       /\ pass' >= 1 => ncreate' = 1
       /\ (pc' = "done" /\ input.DisAsm) => ncreate' = 1
       /\ ncreate' = 0 =>
             /\ calls' = <<>>
             /\ \A k \in 1..Len(stream') : stream'[k].kind \in {"origin", "error"}
             /\ Named(Table') = {}
       /\ (ncreate' = ncreate /\ Table' # Table) =>
             \/ /\ pass = 0 /\ ncreate = 0
                /\ \E a \in Addr : Table' = insertAddress(Table, a)
             \/ /\ pass = 1 /\ ncreate = 1
                /\ \A a \in DOMAIN Table : a \in DOMAIN Table' /\ Table'[a] = Table[a]
                /\ \A a \in DOMAIN Table' \ DOMAIN Table :
                      \E k \in (Len(calls) + 1)..Len(calls') :
                         /\ calls'[k].fn = "lookupSymbolName"
                         /\ calls'[k].arg = a /\ calls'[k].insertion]_vars

\* a whole call in which the first pass recorded a branch target, which
\* createSymbols named, and the second pass inserted another address by a
\* lookup and wrote a label
Wit_C23 ==
    /\ pc = "done" /\ ncreate = 1
    /\ \E a \in DOMAIN Table : InRegion(a) /\ Table[a] = RelativeLabel(a, env.Fptr)
    /\ \E k \in Lookups : calls[k].insertion
    /\ \E k \in 1..Len(stream) : stream[k].kind = "label"

\* the glyphs of one kind in the lines the printer wrote to the output
RECURSIVE StreamGlyphs(_, _)
StreamGlyphs(s, kind) ==
    IF s = <<>> THEN 0
    ELSE (IF Head(s).kind = "lineinfo" THEN SumGlyphs(Head(s).data, kind) ELSE 0)
         + StreamGlyphs(Tail(s), kind)

\* C24: the step that ends the second pass, taken behind the last
\* instruction, calls emit_finish once: it writes one closing line for the
\* frames still open, as the last of the output, or nothing when none is
\* open.  When the call has returned the context is empty, inline_depth is
\* 0 and the output holds as many closing glyphs as opening glyphs.
Thm_C24 ==
    [][(pc = "loop" /\ pc' = "done") =>
          /\ Index >= env.Fsize /\ pass = 1
          /\ context' = <<>> /\ inline_depth' = 0
          /\ Appended = IF input.di_ctx /\ inline_depth > 0
                        THEN <<Item("lineinfo", Index, <<>>,
                                    <<CloseLine(0, inline_depth)>>)>>
                        ELSE <<>>
          /\ \A k \in 1..Len(stream) : stream[k].off <= Index
          /\ StreamGlyphs(stream', "open") = StreamGlyphs(stream', "close")
          /\ StreamGlyphs(stream, "open")
                = StreamGlyphs(stream, "close") + inline_depth]_vars

\* the call has returned and the last thing written is the line that closes
\* two frames left open behind the last instruction
Wit_C24 ==
    /\ pc = "done"
    /\ stream # <<>>
    /\ LET last == stream[Len(stream)]
       IN /\ last.kind = "lineinfo" /\ last.off >= env.Fsize
          /\ last.data = <<CloseLine(0, 2)>>
    /\ StreamGlyphs(stream, "open") >= 2

\* the targets MCIA->evaluateBranch gave for the branches and calls decoded
\* so far (a decoding that did not fail, SoftFail included)
EvaluatedTargets ==
    { Add(Add(env.Fptr, off), decoded[off].rel) :
        off \in { o \in DOMAIN decoded :
                    /\ input.MCIA
                    /\ decoded[o].S # "Fail"
                    /\ decoded[o].isBranch /\ decoded[o].evaluable } }

\* C25: throughout the first pass, and so when createSymbols runs at its
\* end, the addresses of the SymbolTable are exactly the evaluated targets
\* of the branches and calls decoded at the visited offsets, all without a
\* name; createSymbols adds no address.
Thm_C25 ==
    /\ pass = 0 =>
          /\ DOMAIN Table = EvaluatedTargets
          /\ Named(Table) = {}
    /\ (pass = 1 /\ pc = "pass") => DOMAIN Table = EvaluatedTargets

\* the first pass at the end of a region in which it recorded the target of
\* a branch and passed an instruction with another reference
Wit_C25 ==
    /\ pass = 0 /\ pc = "loop" /\ Index >= env.Fsize
    /\ Cardinality(DOMAIN Table) = 1
    /\ \E o \in DOMAIN decoded : decoded[o].isBranch /\ decoded[o].evaluable
    /\ \E o \in DOMAIN decoded : ~decoded[o].isBranch /\ decoded[o].refs # <<>>

\* an emit_lineinfo call that got past the early returns
Annotated == op.name = "emit_lineinfo" /\ verbosity = "source" /\ op.arg # <<>>

\* for the call just made: the size of the matching prefix, whether the
\* recursion test applied, the index k from which context is closed and
\* re-opened, and update_line_only
PrefixOfCall == MatchingPrefix(op.pre.context, op.arg, 0)
RecursiveCall == RecursiveContinuation(op.pre.context, op.arg, PrefixOfCall)
IndexOfCall ==
    IF RecursiveCall
    THEN ExcludeCombined(op.pre.context, PrefixOfCall,
                         Method(At(op.pre.context, PrefixOfCall - 1)))
    ELSE PrefixOfCall
LineOnlyOfCall ==
    RecursiveCall \/ SameFrameUpdate(op.pre.context, op.arg, IndexOfCall)

\* the frames of the call's stack from the index k on, outermost first
Opened(k) == SubSeq(Reverse(op.arg), k + 1, Len(op.arg))

\* the lines written that open a frame with an increment of inline_depth
Increments ==
    Cardinality(OpenLines(text))
    - (IF LineOnlyOfCall /\ OpenLines(text) # {} THEN 1 ELSE 0)

\* C26: when the call closes context from the index k on, the pop count is
\* the number of runs of function names in context[k:], less one if
\* update_line_only; it is not negative and not above inline_depth; context
\* is cut to k (and the new frames follow), inline_depth goes down by the
\* pop count before the frames printed raise it, and the text begins with
\* one closing line of that many glyphs exactly when the count is positive.
Thm_C26 ==
    (Annotated /\ IndexOfCall < Len(op.pre.context)) =>
        LET ctx == op.pre.context
            k == IndexOfCall
            pops == Runs(SubSeq(ctx, k + 1, Len(ctx)))
                    - (IF LineOnlyOfCall THEN 1 ELSE 0)
        IN /\ pops >= 0 /\ pops <= op.pre.inline_depth
           /\ context = SubSeq(ctx, 1, k) \o Opened(k)
           /\ inline_depth = (op.pre.inline_depth - pops) + Increments
           /\ CloseLines(text) = (IF pops > 0 THEN {1} ELSE {})
           /\ pops > 0 => text[1].glyphs = pops

\* a call that closes two frames of two functions above the first frame
\* and updates the line of the lower of them: one closing glyph
Wit_C26 ==
    /\ Annotated
    /\ op.pre.context = <<Fr(<<"g">>, 1), Fr(<<"f">>, 1), Fr(<<"h">>, 1)>>
    /\ op.arg = <<Fr(<<"f", ";">>, 1), Fr(<<"g">>, 1)>>
    /\ LineOnlyOfCall /\ IndexOfCall = 1
    /\ Len(text) = 2 /\ text[1].kind = "close" /\ text[1].glyphs = 1
    /\ inline_depth = 2

\* the frames at the end of s that share the function name of its last
\* frame: the innermost run
TrailingRun(s) ==
    LET same(i) == \A j \in i..Len(s) : Method(s[j]) = Method(s[Len(s)])
        start == CHOOSE i \in 1..Len(s) :
                    same(i) /\ \A n \in 1..(i - 1) : ~same(n)
    IN SubSeq(s, start, Len(s))

\* the stack of the call is the open context with further frames of the
\* function of its innermost frame
ExtendsRun ==
    LET ctx == op.pre.context
        new == Reverse(op.arg)
    IN /\ ctx # <<>>
       /\ Len(new) > Len(ctx)
       /\ SubSeq(new, 1, Len(ctx)) = ctx
       /\ \A i \in (Len(ctx) + 1)..Len(new) : Method(new[i]) = Method(ctx[Len(ctx)])

\* the stack of the call is the open context without some, not all, of the
\* frames of its innermost run
ShortensRun ==
    LET ctx == op.pre.context
        new == Reverse(op.arg)
    IN /\ new # <<>>
       /\ Len(new) < Len(ctx)
       /\ SubSeq(ctx, 1, Len(new)) = new
       /\ \A i \in Len(new)..Len(ctx) : Method(ctx[i]) = Method(ctx[Len(ctx)])

\* C27: a call whose stack extends the innermost run of the open context by
\* frames of the same function, or drops some frames of that run, sets
\* update_line_only and writes one line: the whole innermost run of the new
\* stack, without an opening glyph; no closing line is written,
\* inline_depth stays and context becomes the new stack.
Thm_C27 ==
    (Annotated /\ (ExtendsRun \/ ShortensRun)) =>
        /\ LineOnlyOfCall
        /\ text = <<OpenLine(inlining_indent(op.pre.inline_depth, bracket_outer),
                             FALSE, TrailingRun(Reverse(op.arg)))>>
        /\ inline_depth = op.pre.inline_depth
        /\ context = Reverse(op.arg)

\* f below g is open and the call adds a second frame of f: one line with
\* both frames of f
Wit_C27 ==
    /\ Annotated /\ ExtendsRun
    /\ op.pre.context = <<Fr(<<"g">>, 1), Fr(<<"f">>, 1)>>
    /\ op.arg = <<Fr(<<"f", ";">>, 1), Fr(<<"f">>, 1), Fr(<<"g">>, 1)>>
    /\ Len(text) = 1 /\ text[1].frames = <<Fr(<<"f">>, 1), Fr(<<"f", ";">>, 1)>>
    /\ inline_depth = 2

\* the recursion test does not apply to the call, and the first open frame
\* that does not match and the new frame at its place share a function name
SameFrameCall ==
    /\ ~RecursiveCall
    /\ PrefixOfCall < Len(op.pre.context)
    /\ PrefixOfCall < Len(op.arg)
    /\ Method(At(op.pre.context, PrefixOfCall))
          = Method(At(Reverse(op.arg), PrefixOfCall))

\* C28: in such a call update_line_only is set and the index k stays the
\* size of the matching prefix; the new frame takes the place of the open
\* frame in context and heads the first line printed, which has no opening
\* glyph; the closing glyphs are those of the runs above the frame's own
\* run, and inline_depth changes by those and by the further lines opened
\* only.
Thm_C28 ==
    (Annotated /\ SameFrameCall) =>
        LET ctx == op.pre.context
            k == PrefixOfCall
            above == Runs(SubSeq(ctx, k + 1, Len(ctx))) - 1
            first == CHOOSE i \in OpenLines(text) :
                        \A j \in OpenLines(text) : i <= j
        IN /\ LineOnlyOfCall /\ IndexOfCall = k
           /\ context = Reverse(op.arg)
           /\ At(context, k) = At(Reverse(op.arg), k)
           /\ OpenLines(text) # {}
           /\ text[first].glyphs = 0
           /\ text[first].frames[1] = At(Reverse(op.arg), k)
           /\ SumGlyphs(text, "close") = above
           /\ SumGlyphs(text, "open") = Cardinality(OpenLines(text)) - 1
           /\ inline_depth = op.pre.inline_depth - above
                             + (Cardinality(OpenLines(text)) - 1)

\* f is open and the call brings g inlined into "f;": the line of f is
\* written again without a glyph, g is opened below it
Wit_C28 ==
    /\ Annotated /\ SameFrameCall
    /\ op.pre.context = <<Fr(<<"f">>, 1)>>
    /\ op.arg = <<Fr(<<"g">>, 1), Fr(<<"f", ";">>, 1)>>
    /\ Len(text) = 2
    /\ text[1].glyphs = 0 /\ text[2].glyphs = 1
    /\ inline_depth = 2

\* the opening lines of the text of the call, in order, and their frames
OpenText == SelectSeq(text, LAMBDA l : l.kind = "open")
RECURSIVE FramesOf(_)
FramesOf(lines) ==
    IF lines = <<>> THEN <<>> ELSE Head(lines).frames \o FramesOf(Tail(lines))

\* inline_depth after the closing step of the call
DepthAfterClose ==
    LET ctx == op.pre.context
        k == IndexOfCall
    IN IF k < Len(ctx)
       THEN op.pre.inline_depth
            - (Runs(SubSeq(ctx, k + 1, Len(ctx))) - (IF LineOnlyOfCall THEN 1 ELSE 0))
       ELSE op.pre.inline_depth

\* what C29 says of the lines but for their glyphs: the frames from the
\* index k on are printed outermost first, one line for every maximal run
\* of frames of one function, and every run but a first one under
\* update_line_only raises inline_depth by one
OpeningLines ==
    /\ FramesOf(OpenText) = Opened(IndexOfCall)
    /\ Len(OpenText) = (IF Opened(IndexOfCall) = <<>> THEN 0
                        ELSE Runs(Opened(IndexOfCall)))
    /\ \A i \in 1..Len(OpenText) : SameMethod(OpenText[i].frames)
    /\ inline_depth = DepthAfterClose + Len(OpenText)
                      - (IF LineOnlyOfCall /\ OpenText # <<>> THEN 1 ELSE 0)

\* C29 as stated: moreover every line has the opening glyph, except the
\* first under update_line_only.
Orig_C29 ==
    Annotated =>
        /\ OpeningLines
        /\ \A i \in 1..Len(OpenText) :
              OpenText[i].glyphs = (IF i = 1 /\ LineOnlyOfCall THEN 0 ELSE 1)

\* C29 amended: every line has the opening glyph, except the first under
\* update_line_only and except the line of the outermost frame of the stack
\* when bracket_outer is not set, which raises inline_depth without a glyph.
Thm_C29 ==
    Annotated =>
        /\ OpeningLines
        /\ \A i \in 1..Len(OpenText) :
              OpenText[i].glyphs =
                 (IF i = 1 /\ (LineOnlyOfCall \/ (~bracket_outer /\ IndexOfCall = 0))
                  THEN 0 ELSE 1)

\* on the printer without the outer bracket: two frames of f and g inlined
\* into them, opened on a fresh context as two lines, the first without a
\* glyph, inline_depth 2
Wit_C29 ==
    /\ Annotated /\ ~bracket_outer /\ ~LineOnlyOfCall
    /\ op.pre.context = <<>>
    /\ op.arg = <<Fr(<<"g">>, 1), Fr(<<"f", ";">>, 1), Fr(<<"f">>, 1)>>
    /\ Len(text) = 2
    /\ text[1].frames = <<Fr(<<"f">>, 1), Fr(<<"f", ";">>, 1)>> /\ text[1].glyphs = 0
    /\ text[2].glyphs = 1
    /\ inline_depth = 2

\* the indent the claim gives a line written at the depth d
IndentAt(d) == IF bracket_outer THEN d ELSE (IF d > 0 THEN d - 1 ELSE 0)

\* C30: the closing line of a call is indented by the inline_depth left
\* after the decrement, and the i-th opening line by the inline_depth it
\* finds, before its own increment; with bracket_outer unset the indent is
\* one less, and 0 at depth 0.
Thm_C30 ==
    Annotated =>
        /\ \A i \in CloseLines(text) : text[i].indent = IndentAt(DepthAfterClose)
        /\ \A i \in 1..Len(OpenText) :
              OpenText[i].indent =
                 IndentAt(DepthAfterClose + (i - 1)
                          - (IF LineOnlyOfCall /\ i > 1 THEN 1 ELSE 0))

\* on the printer without the outer bracket, three frames open: the call
\* closes the innermost and opens another, both lines with one indent glyph
Wit_C30 ==
    /\ Annotated /\ ~bracket_outer
    /\ op.pre.context = <<Fr(<<"f">>, 1), Fr(<<"g">>, 1), Fr(<<"h">>, 1)>>
    /\ op.arg = <<Fr(<<"f">>, 1), Fr(<<"g">>, 1), Fr(<<"f">>, 1)>>
    /\ text = <<CloseLine(1, 1), OpenLine(1, TRUE, <<Fr(<<"f">>, 1)>>)>>
    /\ inline_depth = 3

\* C31: the text of one emit_lineinfo call holds at most one closing line,
\* and that line stands before every opening line of the call.
Thm_C31 ==
    op.name = "emit_lineinfo" =>
        /\ Cardinality(CloseLines(text)) <= 1
        /\ \A i \in CloseLines(text) : \A j \in OpenLines(text) : i < j

\* a call that closes the one open frame and opens two frames of other
\* functions: the closing line, then two opening lines
Wit_C31 ==
    /\ Annotated
    /\ op.pre.context = <<Fr(<<"f">>, 1)>>
    /\ op.arg = <<Fr(<<"h">>, 1), Fr(<<"g">>, 1)>>
    /\ Len(text) = 3
    /\ text[1].kind = "close" /\ text[2].kind = "open" /\ text[3].kind = "open"

\* C32: an emit_lineinfo call with the frames of the call before it, not
\* empty, writes nothing and leaves context and inline_depth as that call
\* left them.
Thm_C32 ==
    \A i \in 2..Len(log) :
       (log[i].arg = log[i - 1].arg /\ log[i].arg # <<>>) =>
          /\ log[i].text = <<>>
          /\ log[i].context = log[i - 1].context
          /\ log[i].inline_depth = log[i - 1].inline_depth

\* g inlined into two frames of f, passed twice after another stack: the
\* first of the two calls writes, the second does not
Wit_C32 ==
    /\ Len(log) = 3
    /\ log[1].arg # <<>>
    /\ log[2].arg = <<Fr(<<"g">>, 1), Fr(<<"f", ";">>, 1), Fr(<<"f">>, 1)>>
    /\ log[3].arg = log[2].arg
    /\ log[2].text # <<>>
    /\ log[3].text = <<>>
    /\ inline_depth = 2

\* C33: the step that calls createSymbols sets the instruction pointer to
\* Fptr, and gives every address of the region in the table the name "L"
\* followed by d = address - Fptr, with 0 <= d < Fsize in plain integers;
\* two different addresses of the region get different names.
Thm_C33 ==
    [][ncreate' # ncreate =>
          /\ ip' = env.Fptr
          /\ \A a \in DOMAIN Table' :
                InRegion(a) =>
                   /\ Table'[a] = <<"L", a - env.Fptr>>
                   /\ 0 <= a - env.Fptr
                   /\ a - env.Fptr < env.Fsize
          /\ \A a, b \in DOMAIN Table' :
                (InRegion(a) /\ InRegion(b) /\ a # b) => Table'[a] # Table'[b]
       ]_vars

\* createSymbols has just named two addresses of a region that does not
\* start at 0, one of them past the start
Wit_C33 ==
    /\ pass = 1 /\ pc = "pass" /\ ncreate = 1
    /\ env.Fptr # 0
    /\ \E a, b \in DOMAIN Table :
          /\ InRegion(a) /\ InRegion(b) /\ a < b
          /\ Table[a] = OffsetLabel(a - env.Fptr)
          /\ Table[b] = OffsetLabel(b - env.Fptr)

\* C34: after an emit_lineinfo call that got past the early returns, context
\* holds the frames of the call, outermost first, whatever it held before.
Thm_C34 == Annotated => context = Reverse(op.arg)

\* the call replaced two open frames by frames none of which was open, the
\* recursive run of f among them
Wit_C34 ==
    /\ Annotated
    /\ op.pre.context = <<Fr(<<"g">>, 1), Fr(<<"h">>, 1)>>
    /\ op.arg = <<Fr(<<"g">>, 1), Fr(<<"f", ";">>, 1), Fr(<<"f">>, 1)>>
    /\ context = <<Fr(<<"f">>, 1), Fr(<<"f", ";">>, 1), Fr(<<"g">>, 1)>>

\* the lines written by the calls of the script so far, emit_finish included
RECURSIVE LogText(_)
LogText(l) == IF l = <<>> THEN <<>> ELSE Head(l).text \o LogText(Tail(l))
Output == LogText(log) \o (IF op.name = "emit_finish" THEN text ELSE <<>>)

\* C35: in the output of a sequence of emit_lineinfo calls on a fresh printer
\* the closing glyphs never outnumber the opening glyphs written before them,
\* and after the emit_finish that ends the sequence there are as many of the
\* one as of the other, with and without bracket_outer.
Orig_C35 ==
    /\ \A n \in 0..Len(Output) :
          SumGlyphs(SubSeq(Output, 1, n), "close")
             <= SumGlyphs(SubSeq(Output, 1, n), "open")
    /\ op.name = "emit_finish" =>
          SumGlyphs(Output, "open") = SumGlyphs(Output, "close")

\* C36: in the second pass di_lineIter is dereferenced only at a position
\* of di_lineinfo: no step reads the entry at di_lineinfo.end().
Orig_C36 == "end of the line table" \notin ub

\* C37: no step of either pass reads a byte outside [Fptr, Fptr + Fsize);
\* the raw bytes written for a decoding failure are bytes of the region.
Orig_C37 == "past the region" \notin ub

\* C38: the labels written in the second pass at different offsets have
\* different names.
Orig_C38 ==
    \A i, j \in { k \in 1..Len(stream) : stream[k].kind = "label" } :
        stream[i].off # stream[j].off => stream[i].name # stream[j].name

\* the positions of the line table of the debug information that end a
\* group of consecutive entries with one address, and the k-th of them
LastOfGroup ==
    { i \in 1..Len(input.lineinfo) :
        i = Len(input.lineinfo)
        \/ input.lineinfo[i + 1].first # input.lineinfo[i].first }
NthLast(k) ==
    CHOOSE i \in LastOfGroup : Cardinality({ j \in LastOfGroup : j <= i }) = k

\* C39: once the line table is filtered, no two adjacent entries of
\* di_lineinfo have the same address, every address of the table of the
\* debug information is still there, and di_lineinfo holds, in their order,
\* the last entry of every group of consecutive entries with one address.
Thm_C39 ==
    (input.DisAsm /\ input.di_ctx /\ pc # "entry") =>
       /\ \A k \in 1..(Len(di_lineinfo) - 1) :
             di_lineinfo[k].first # di_lineinfo[k + 1].first
       /\ { di_lineinfo[k].first : k \in 1..Len(di_lineinfo) }
             = { input.lineinfo[i].first : i \in 1..Len(input.lineinfo) }
       /\ Len(di_lineinfo) = Cardinality(LastOfGroup)
       /\ \A k \in 1..Len(di_lineinfo) : di_lineinfo[k] = input.lineinfo[NthLast(k)]

\* two entries for one address with different frames: the second is kept
Wit_C39 ==
    /\ input.DisAsm /\ input.di_ctx /\ pc = "done"
    /\ Len(input.lineinfo) = 2
    /\ input.lineinfo[1].first = input.lineinfo[2].first
    /\ input.lineinfo[1].second # input.lineinfo[2].second
    /\ di_lineinfo = <<input.lineinfo[2]>>

====
